---- MODULE Spec2Model ----
(***************************************************************************)
(* A model of the sparse autoencoder's LinearEncoder (construction,        *)
(* reset_parameters, forward, reset_optimizer_parameter_details), of the   *)
(* AbstractAutoencoder's aggregation of reset details, and of the default  *)
(* SweepParameterConfig.                                                   *)
(*                                                                         *)
(* A tensor is a record [shape |-> <<d1, ..., dn>>, data |-> <<...>>] with *)
(* the data stored row-major, as torch stores a contiguous tensor.  Values *)
(* are integers: a uniform draw from [-b, b] is a draw from the integers   *)
(* of that interval.  Indices are 0-based, as in Python.                   *)
(***************************************************************************)
EXTENDS Integers, Sequences, FiniteSets, TLC

\* ------------------------------------------------------------------ bounds

MaxInputFeatures == 2
MaxLearntFeatures == 2
MaxComponents == 2
MaxBatch == 2
MaxSteps == 1
MaxDecoderDetails == 2

\* ----------------------------------------------------------------- tensors

RECURSIVE Prod(_)
Prod(s) == IF s = <<>> THEN 1 ELSE Head(s) * Prod(Tail(s))

Numel(shape) == Prod(shape)

\* tensor.dim()
Rank(t) == Len(t.shape)

\* tensor.size(dim) / tensor.shape[dim]: dim is 0-based, negative counts from the end.
Size(t, dim) == IF dim >= 0 THEN t.shape[dim + 1] ELSE t.shape[Rank(t) + dim + 1]

\* Row-major offset of the 0-based multi-index idx in a tensor of this shape.
RECURSIVE Offset(_, _)
Offset(shape, idx) ==
    IF shape = <<>> THEN 0
    ELSE Head(idx) * Prod(Tail(shape)) + Offset(Tail(shape), Tail(idx))

\* The 0-based multi-index of row-major offset k.
RECURSIVE Unflatten(_, _)
Unflatten(shape, k) ==
    IF shape = <<>> THEN <<>>
    ELSE <<k \div Prod(Tail(shape))>> \o Unflatten(Tail(shape), k % Prod(Tail(shape)))

\* tensor[idx]
At(t, idx) == t.data[Offset(t.shape, idx) + 1]

\* torch.zeros(shape); torch.empty(shape) is modelled the same, its content is
\* overwritten by reset_parameters before anything reads it.
Zeros(shape) == [shape |-> shape, data |-> [k \in 1..Numel(shape) |-> 0]]

\* ------------------------------------------------------------ broadcasting

LastN(s, n) == SubSeq(s, Len(s) - n + 1, Len(s))

Max(a, b) == IF a >= b THEN a ELSE b

\* Size of axis k (1-based, counted after right-aligning s to rank r); 1 where s has no axis.
AlignedDim(s, r, k) == IF k <= r - Len(s) THEN 1 ELSE s[k - (r - Len(s))]

\* Two shapes broadcast when, right-aligned, each pair of sizes is equal or has a 1.
Broadcastable(s1, s2) ==
    LET r == Max(Len(s1), Len(s2))
    IN \A k \in 1..r :
          \/ AlignedDim(s1, r, k) = AlignedDim(s2, r, k)
          \/ AlignedDim(s1, r, k) = 1
          \/ AlignedDim(s2, r, k) = 1

BroadcastShape(s1, s2) ==
    LET r == Max(Len(s1), Len(s2))
    IN [k \in 1..r |-> Max(AlignedDim(s1, r, k), AlignedDim(s2, r, k))]

\* The index into a tensor of shape s that the broadcast index idx reads.
BroadcastIndex(s, idx) ==
    LET own == LastN(idx, Len(s))
    IN [k \in 1..Len(s) |-> IF s[k] = 1 THEN 0 ELSE own[k]]

\* a + b with torch's broadcasting (the shapes are broadcastable).
AddBroadcast(a, b) ==
    LET shape == BroadcastShape(a.shape, b.shape)
        entry(idx) == At(a, BroadcastIndex(a.shape, idx)) + At(b, BroadcastIndex(b.shape, idx))
    IN [shape |-> shape,
        data |-> [k \in 1..Numel(shape) |-> entry(Unflatten(shape, k - 1))]]

\* tensor + delta, elementwise
AddScalar(t, delta) == [shape |-> t.shape, data |-> [k \in 1..Len(t.data) |-> t.data[k] + delta]]

RECURSIVE SumSeq(_)
SumSeq(s) == IF s = <<>> THEN 0 ELSE Head(s) + SumSeq(Tail(s))

\* ------------------------------------------------------- random generator

\* torch's default generator: a deterministic sequence of draws from a seed.
\* Modelled as a full-period linear congruential generator over 0..3.
NextGenerator(g) == (5 * g + 3) % 4

RECURSIVE Advance(_, _)
Advance(g, n) == IF n = 0 THEN g ELSE Advance(NextGenerator(g), n - 1)

\* The largest integer b with b^2 <= num / den: the integer part of a bound
\* whose square is num / den (a bound of 0 is num = 0).
IntBound(num, den) ==
    CHOOSE b \in 0..num : b * b * den <= num /\ (b + 1) * (b + 1) * den > num

\* init.uniform_(tensor, -bound, bound) with bound^2 = num / den, drawing from
\* generator state g: the new tensor and the generator state after the draws.
Uniform(t, num, den, g) ==
    LET b == IntBound(num, den)
        draw(k) == (Advance(g, k - 1) % (2 * b + 1)) - b
    IN [tensor |-> [shape |-> t.shape, data |-> [k \in 1..Len(t.data) |-> draw(k)]],
        generator |-> Advance(g, Len(t.data))]

\* torch.nn.init._calculate_fan_in_and_fan_out(tensor)[0]: size(1) times the
\* product of the sizes after the second axis.
KaimingFanIn(t) == Size(t, 1) * Prod(SubSeq(t.shape, 3, Rank(t)))

\* init.kaiming_uniform_(tensor, nonlinearity="relu"): gain sqrt(2), so the
\* bound is sqrt(3) * sqrt(2) / sqrt(fan_in), its square 6 / fan_in.
KaimingUniform(t, g) == Uniform(t, 6, KaimingFanIn(t), g)

\* ------------------------------------------------------------ LinearEncoder

None == 0

\* utils.tensor_shape.shape_with_optional_dimensions(*shape): the sizes that
\* are not None, in order.
shape_with_optional_dimensions(dims) == SelectSeq(dims, LAMBDA d : d # None)

\* The weight allocated with its two feature axes the other way round.
WeightShapeTransposed(input_features, learnt_features, n_components) ==
    shape_with_optional_dimensions(<<n_components, input_features, learnt_features>>)

\* The shape __init__ gives the weight.
WeightShape(input_features, learnt_features, n_components) ==
    shape_with_optional_dimensions(<<n_components, learnt_features, input_features>>)

\* The shape __init__ gives the bias.
BiasShape(learnt_features, n_components) ==
    shape_with_optional_dimensions(<<n_components, learnt_features>>)

\* The fan_in reset_parameters computes for the bias bound.
BiasFanIn(weight) == Size(weight, 1)

\* reset_parameters on an encoder record e with generator state g: the
\* encoder with new parameter values, the generator after the draws, and the
\* fan_in it used.
reset_parameters(e, g) ==
    LET w == KaimingUniform(e.weight, g)
        fi == BiasFanIn(w.tensor)
        b == IF fi > 0 THEN Uniform(e.bias, 1, fi, w.generator)
                       ELSE Uniform(e.bias, 0, 1, w.generator)
    IN [encoder |-> [e EXCEPT !.weight = w.tensor, !.bias = b.tensor],
        generator |-> b.generator,
        fan_in |-> fi]

\* __init__ after validation: the fields, the allocated parameters, then
\* reset_parameters.
NewLinearEncoder(input_features, learnt_features, n_components, g) ==
    reset_parameters(
        [input_features |-> input_features,
         learnt_features |-> learnt_features,
         n_components |-> n_components,
         weight |-> Zeros(WeightShape(input_features, learnt_features, n_components)),
         bias |-> Zeros(BiasShape(learnt_features, n_components))],
        g)

\* No rectification.
ReLUOmitted(v) == v

\* torch.nn.ReLU on one value.
ReLU(v) == IF v > 0 THEN v ELSE 0

\* The axes the "..." of the einsum pattern stands for in x (between the
\* batch axis and the feature axis) and in the weight (before its last two).
EllipsisOfX(x) == SubSeq(x.shape, 2, Rank(x) - 1)
EllipsisOfWeight(w) == SubSeq(w.shape, 1, Rank(w) - 2)

\* einops.einsum hands the pattern to torch.einsum, which accepts operands
\* whose same-named axes, and whose ellipsis axes, are equal or of size 1.
EinsumAccepts(x, w) ==
    /\ Rank(x) >= 2
    /\ Rank(w) >= 2
    /\ Broadcastable(EllipsisOfX(x), EllipsisOfWeight(w))
    /\ Broadcastable(<<Size(x, -1)>>, <<Size(w, -1)>>)

\* einsum(x, weight, "batch ... input_output_feature,
\*        ... learnt_feature input_output_feature -> batch ... learnt_feature")
Einsum(x, w) ==
    LET ex == EllipsisOfX(x)
        ew == EllipsisOfWeight(w)
        e == BroadcastShape(ex, ew)
        n == Max(Size(x, -1), Size(w, -1))
        shape == <<Size(x, 0)>> \o e \o <<Size(w, -2)>>
        entry(idx) ==
            LET b == idx[1]
                ell == SubSeq(idx, 2, Len(idx) - 1)
                l == idx[Len(idx)]
                term(i) ==
                    At(x, <<b>> \o BroadcastIndex(ex, ell) \o BroadcastIndex(<<Size(x, -1)>>, <<i>>))
                    * At(w, BroadcastIndex(ew, ell) \o <<l>> \o BroadcastIndex(<<Size(w, -1)>>, <<i>>))
            IN SumSeq([k \in 1..n |-> term(k - 1)])
    IN [shape |-> shape,
        data |-> [k \in 1..Numel(shape) |-> entry(Unflatten(shape, k - 1))]]

\* The value forward raises instead of returning.
RuntimeError == [raised |-> TRUE]

\* The body of forward on the tensors it reads: the einsum, plus the bias,
\* through the activation function; or the error raised on the way.
Activations(x, weight, bias) ==
    IF ~EinsumAccepts(x, weight) THEN RuntimeError
    ELSE LET y == Einsum(x, weight)
         IN IF ~Broadcastable(y.shape, bias.shape) THEN RuntimeError
            ELSE LET z == AddBroadcast(y, bias)
                 IN [raised |-> FALSE,
                     value |-> [shape |-> z.shape,
                                data |-> [k \in 1..Len(z.data) |-> ReLU(z.data[k])]]]

\* The tensor with its first component's entries in every component.
FirstComponent(t) ==
    LET n == Size(t, -1) * Size(t, -2)
    IN [shape |-> t.shape, data |-> [k \in 1..Len(t.data) |-> t.data[((k - 1) % n) + 1]]]

\* forward with the weight of the first component used for every component.
forward_first_component(e, x) == Activations(x, FirstComponent(e.weight), e.bias)

\* LinearEncoder.forward(x): what the call returns, or that it raised.
forward(e, x) == Activations(x, e.weight, e.bias)

\* The details with the weight's last axis named.
details_weight_last_axis ==
    << [parameter |-> [owner |-> "encoder", name |-> "weight"], axis |-> -1],
       [parameter |-> [owner |-> "encoder", name |-> "bias"], axis |-> -1] >>

\* LinearEncoder.reset_optimizer_parameter_details: (parameter, axis) pairs,
\* a parameter being named by the component and the attribute that hold it.
reset_optimizer_parameter_details ==
    << [parameter |-> [owner |-> "encoder", name |-> "weight"], axis |-> -2],
       [parameter |-> [owner |-> "encoder", name |-> "bias"], axis |-> -1] >>

\* --------------------------------------------------- constructor arguments

\* What a caller may pass for input_features, learnt_features, n_components:
\* Python values of several types.  A float is held as twice its value, a
\* string as its characters.
IntArg(v) == [kind |-> "int", int |-> v]
NoneArg == [kind |-> "NoneType"]
BoolArg(b) == [kind |-> "bool", bool |-> b]
FloatArg(halves) == [kind |-> "float", halves |-> halves]
StrArg(chars) == [kind |-> "str", chars |-> chars]

DigitChars == <<"0", "1", "2", "3", "4", "5", "6", "7", "8", "9">>

Digits == { DigitChars[k] : k \in 1..Len(DigitChars) }

DigitValue(c) == (CHOOSE k \in 1..Len(DigitChars) : DigitChars[k] = c) - 1

RECURSIVE DecimalValue(_)
DecimalValue(chars) ==
    IF chars = <<>> THEN 0
    ELSE 10 * DecimalValue(SubSeq(chars, 1, Len(chars) - 1)) + DigitValue(chars[Len(chars)])

IsDecimal(chars) == chars # <<>> /\ \A k \in 1..Len(chars) : chars[k] \in Digits

Invalid == [ok |-> FALSE]
Valid(v) == [ok |-> TRUE, value |-> v]

\* Validation in strict mode: only an int is an int.
ValidateIntStrict(arg) == IF arg.kind = "int" THEN Valid(arg.int) ELSE Invalid

\* pydantic's validation of one argument as an int, as @validate_call runs it
\* (lax mode): an int is taken as is, a bool as 0 or 1, a float when it has no
\* fractional part, a string when it is a signed decimal literal.
ValidateInt(arg) ==
    CASE arg.kind = "int" -> Valid(arg.int)
      [] arg.kind = "bool" -> Valid(IF arg.bool THEN 1 ELSE 0)
      [] arg.kind = "float" ->
            IF arg.halves % 2 = 0 THEN Valid(arg.halves \div 2) ELSE Invalid
      [] arg.kind = "str" ->
            IF IsDecimal(arg.chars) THEN Valid(DecimalValue(arg.chars))
            ELSE IF Len(arg.chars) >= 2 /\ arg.chars[1] = "-" /\ IsDecimal(Tail(arg.chars))
                 THEN Valid(0 - DecimalValue(Tail(arg.chars)))
                 ELSE Invalid
      [] OTHER -> Invalid

\* PositiveInt: an int greater than 0.
ValidatePositiveInt(arg) ==
    LET r == ValidateInt(arg)
    IN IF r.ok /\ r.value > 0 THEN r ELSE Invalid

\* PositiveInt | None
ValidateOptionalPositiveInt(arg) ==
    IF arg.kind = "NoneType" THEN Valid(None) ELSE ValidatePositiveInt(arg)

\* ------------------------------------------------------------------- state

VARIABLES
    pc,              \* "new": no encoder yet; "built"; "rejected": __init__ raised
    encoder,         \* the LinearEncoder: its fields and its two parameters
    generator,       \* the state of torch's random generator
    fan_in,          \* the local fan_in of the last reset_parameters
    call,            \* the most recent call: its arguments and what it returned
    steps,           \* the external in-place writes since the parameters were last reset
    decoder_details, \* the decoder's reset_optimizer_parameter_details
    details,         \* the autoencoder's reset_optimizer_parameter_details, as last read
    sweep,           \* the SweepConfig
    modified         \* the sweep parameters assigned since the default construction

vars == <<pc, encoder, generator, fan_in, call, steps, decoder_details, details, sweep, modified>>

NoEncoder ==
    [input_features |-> None, learnt_features |-> None, n_components |-> None,
     weight |-> Zeros(<<0>>), bias |-> Zeros(<<0>>)]

Seeds == 0..3

\* ------------------------------------------------------------ autoencoder

\* The two lists joined the other way round.
autoencoder_details_decoder_first ==
    decoder_details \o reset_optimizer_parameter_details

\* AbstractAutoencoder.reset_optimizer_parameter_details
autoencoder_reset_optimizer_parameter_details ==
    reset_optimizer_parameter_details \o decoder_details

\* What a concrete decoder may return as its reset_optimizer_parameter_details:
\* pairs of one of its own parameters and an axis.
DecoderDetail ==
    { [parameter |-> [owner |-> "decoder", name |-> n], axis |-> a] :
        n \in {"weight", "bias"}, a \in {-1, -2} }

RECURSIVE SeqsUpTo(_, _)
SeqsUpTo(S, n) ==
    IF n = 0 THEN {<<>>}
    ELSE LET shorter == SeqsUpTo(S, n - 1)
         IN shorter \cup { Append(q, e) : q \in shorter, e \in S }

DecoderDetailLists == SeqsUpTo(DecoderDetail, MaxDecoderDetails)

\* ------------------------------------------------------------ sweep config

Absent == [kind |-> "None"]
\* A number written as a decimal literal: num / den.
Number(num, den) == [kind |-> "number", num |-> num, den |-> den]
ListOf(items) == [kind |-> "list", items |-> items]

\* wandb_sweep_types.Parameter(value=, min=, max=): a keyword not given is None.
Parameter(value, min, max) == [value |-> value, min |-> min, max |-> max]

\* The list with its first two values exchanged.
l1_coefficient_reordered ==
    Parameter(ListOf(<<Number(4, 1000), Number(1, 1000), Number(6, 1000),
                       Number(8, 1000), Number(1, 1)>>), Absent, Absent)

\* The default of SweepParameterConfig.l1_coefficient.
l1_coefficient ==
    Parameter(ListOf(<<Number(1, 1000), Number(4, 1000), Number(6, 1000),
                       Number(8, 1000), Number(1, 1)>>), Absent, Absent)

\* SweepParameterConfig(): the defaults of its fields.
SweepParameterConfig ==
    [lr |-> Parameter(Number(1, 1000), Absent, Absent),
     adam_beta_1 |-> Parameter(Number(9, 10), Absent, Absent),
     adam_beta_2 |-> Parameter(Number(999, 1000), Absent, Absent),
     adam_epsilon |-> Parameter(Number(1, 100000000), Absent, Absent),
     adam_weight_decay |-> Parameter(Number(0, 1), Absent, Absent),
     l1_coefficient |-> l1_coefficient,
     width_multiplier |-> Parameter(Number(8, 1), Number(1, 1), Number(256, 1))]

\* SweepConfig(parameters=SweepParameterConfig())
SweepConfig == [method |-> "bayes", parameters |-> SweepParameterConfig]

Hyperparameters == DOMAIN SweepParameterConfig

\* ------------------------------------------------------------- the inputs

\* The tensors a caller passes to forward: every shape (batch, feature) and
\* (batch, component, feature) up to one past the configured sizes, filled
\* with a negative constant or with a ramp.
InputShapes ==
    { <<b, f>> : b \in 1..MaxBatch, f \in 1..(MaxInputFeatures + 1) }
    \cup { <<b, c, f>> : b \in 1..MaxBatch, c \in 1..(MaxComponents + 1),
                         f \in 1..(MaxInputFeatures + 1) }

ConstantInput(shape, v) == [shape |-> shape, data |-> [k \in 1..Numel(shape) |-> v]]
RampInput(shape) == [shape |-> shape, data |-> [k \in 1..Numel(shape) |-> (k % 5) - 2]]

Inputs ==
    { ConstantInput(shape, -1) : shape \in InputShapes }
    \cup { RampInput(shape) : shape \in InputShapes }

ConstructorArgs ==
    { IntArg(v) : v \in -1..MaxInputFeatures }
    \cup { NoneArg, BoolArg(TRUE), BoolArg(FALSE),
           FloatArg(4), FloatArg(3), FloatArg(0),
           StrArg(<<"2">>), StrArg(<<"-", "1">>), StrArg(<<"x">>), StrArg(<<>>) }

\* ------------------------------------------------------------------ actions

Built(r, args) ==
    /\ pc' = "built"
    /\ encoder' = r.encoder
    /\ generator' = r.generator
    /\ fan_in' = r.fan_in
    /\ call' = [op |-> "__init__", args |-> args, raised |-> FALSE]

\* LinearEncoder(input_features, learnt_features, n_components)
Construct ==
    /\ pc = "new"
    /\ \E a_in \in ConstructorArgs, a_learnt \in ConstructorArgs, a_n \in ConstructorArgs :
          LET v_in == ValidatePositiveInt(a_in)
              v_learnt == ValidatePositiveInt(a_learnt)
              v_n == ValidateOptionalPositiveInt(a_n)
          IN IF v_in.ok /\ v_learnt.ok /\ v_n.ok
             THEN Built(NewLinearEncoder(v_in.value, v_learnt.value, v_n.value, generator),
                        <<a_in, a_learnt, a_n>>)
             ELSE /\ pc' = "rejected"
                  /\ call' = [op |-> "__init__", args |-> <<a_in, a_learnt, a_n>>,
                              raised |-> TRUE]
                  /\ UNCHANGED <<encoder, generator, fan_in>>
    /\ UNCHANGED <<steps, decoder_details, details, sweep, modified>>

\* No forward pass is under way: the caller is single-threaded, and the
\* parameters' external writers do not overlap a forward pass.
Idle == call.op # "forward"

\* encoder.reset_parameters()
ResetParameters ==
    /\ pc = "built"
    /\ Idle
    /\ LET r == reset_parameters(encoder, generator)
       IN /\ encoder' = r.encoder
          /\ generator' = r.generator
          /\ fan_in' = r.fan_in
    /\ call' = [op |-> "reset_parameters"]
    /\ steps' = 0
    /\ UNCHANGED <<pc, decoder_details, details, sweep, modified>>

\* encoder.forward(x)
Forward ==
    /\ pc = "built"
    /\ Idle
    /\ \E x \in Inputs :
          call' = [op |-> "forward", x |-> x, result |-> forward(encoder, x)]
    /\ UNCHANGED <<pc, encoder, generator, fan_in, steps, decoder_details, details,
                   sweep, modified>>

\* The caller takes what forward returned (or its error) and goes on.
Return ==
    /\ call.op = "forward"
    /\ call' = [op |-> "none"]
    /\ UNCHANGED <<pc, encoder, generator, fan_in, steps, decoder_details, details,
                   sweep, modified>>

\* An external writer (the optimizer's update step) changes the parameters in
\* place: here by the same amount in every entry.
ExternalWrite ==
    /\ pc = "built"
    /\ Idle
    /\ steps < MaxSteps
    /\ \E delta \in {-1, 1} :
          encoder' = [encoder EXCEPT !.weight = AddScalar(@, delta),
                                     !.bias = AddScalar(@, delta)]
    /\ steps' = steps + 1
    /\ call' = [op |-> "write"]
    /\ UNCHANGED <<pc, generator, fan_in, decoder_details, details, sweep, modified>>

\* autoencoder.reset_optimizer_parameter_details
ReadDetails ==
    /\ pc = "built"
    /\ details' = autoencoder_reset_optimizer_parameter_details
    /\ UNCHANGED <<pc, encoder, generator, fan_in, call, steps, decoder_details,
                   sweep, modified>>

ParameterChoices ==
    { Parameter(Number(1, 100), Absent, Absent),
      Parameter(Absent, Number(1, 1000), Number(1, 10)) }

\* sweep.parameters.<name> = parameter
SetParameter ==
    /\ \E name \in Hyperparameters, p \in ParameterChoices :
          /\ sweep' = [sweep EXCEPT !.parameters[name] = p]
          /\ modified' = modified \cup {name}
    /\ UNCHANGED <<pc, encoder, generator, fan_in, call, steps, decoder_details, details>>

\* sweep.method = method
SetMethod ==
    /\ \E m \in {"bayes", "grid", "random"} : sweep' = [sweep EXCEPT !.method = m]
    /\ UNCHANGED <<pc, encoder, generator, fan_in, call, steps, decoder_details,
                   details, modified>>

\* ----------------------------------------------------------- specifications

Rest ==
    /\ steps = 0
    /\ decoder_details = <<>>
    /\ details = <<>>
    /\ sweep = SweepConfig
    /\ modified = {}

Unbuilt ==
    /\ pc = "new"
    /\ encoder = NoEncoder
    /\ generator \in Seeds
    /\ fan_in = None
    /\ call = [op |-> "none"]

\* A LinearEncoder constructed from valid arguments.
Constructed ==
    \E i \in 1..MaxInputFeatures, l \in 1..MaxLearntFeatures,
       n \in {None} \cup 1..MaxComponents, g \in Seeds :
        LET r == NewLinearEncoder(i, l, n, g)
        IN /\ pc = "built"
           /\ encoder = r.encoder
           /\ generator = r.generator
           /\ fan_in = r.fan_in
           /\ call = [op |-> "__init__",
                      args |-> <<IntArg(i), IntArg(l), IF n = None THEN NoneArg ELSE IntArg(n)>>,
                      raised |-> FALSE]

\* The encoder in use: reset, written to from outside, and run forward.
Init == Constructed /\ Rest
Next == ResetParameters \/ ExternalWrite \/ Forward \/ Return
Spec == Init /\ [][Next]_vars

\* The construction of an encoder from arbitrary arguments.
InitConstruct == Unbuilt /\ Rest
NextConstruct == Construct \/ ResetParameters
SpecConstruct == InitConstruct /\ [][NextConstruct]_vars

\* An autoencoder of the encoder and some decoder.
InitAutoencoder ==
    /\ Constructed
    /\ steps = 0
    /\ decoder_details \in DecoderDetailLists
    /\ details = <<>>
    /\ sweep = SweepConfig
    /\ modified = {}
NextAutoencoder == ReadDetails \/ ResetParameters
SpecAutoencoder == InitAutoencoder /\ [][NextAutoencoder]_vars

\* The sweep configuration.
InitSweep == Unbuilt /\ generator = 0 /\ Rest
NextSweep == SetParameter \/ SetMethod
SpecSweep == InitSweep /\ [][NextSweep]_vars

\* ---------------------------------------------------------------- claims

Cfg == encoder

\* C1: in every state reached from construction by reset_parameters and
\* forward calls, the weight has shape (n_components?, learnt_features,
\* input_features) and the bias has shape (n_components?, learnt_features),
\* the component axis being there exactly when n_components is not None.
C1_ParameterShapes ==
    pc = "built" =>
        /\ encoder.weight.shape =
              IF Cfg.n_components = None
              THEN <<Cfg.learnt_features, Cfg.input_features>>
              ELSE <<Cfg.n_components, Cfg.learnt_features, Cfg.input_features>>
        /\ encoder.bias.shape =
              IF Cfg.n_components = None
              THEN <<Cfg.learnt_features>>
              ELSE <<Cfg.n_components, Cfg.learnt_features>>
        /\ Len(encoder.weight.data) = Numel(encoder.weight.shape)
        /\ Len(encoder.bias.data) = Numel(encoder.bias.shape)

\* A reset after construction of an encoder with a component axis and
\* different feature counts.
C1_Witness ==
    /\ pc = "built"
    /\ call.op = "reset_parameters"
    /\ Cfg.n_components = 2
    /\ Cfg.learnt_features # Cfg.input_features

\* The input of the forward call has the shape the encoder is configured for.
InputMatches ==
    /\ call.op = "forward"
    /\ call.x.shape =
          IF Cfg.n_components = None
          THEN <<Size(call.x, 0), Cfg.input_features>>
          ELSE <<Size(call.x, 0), Cfg.n_components, Cfg.input_features>>

\* max(0, sum_i x[b, (c), i] * weight[(c), l, i] + bias[(c), l])
ExpectedActivation(b, c, l) ==
    LET component == IF Cfg.n_components = None THEN <<>> ELSE <<c>>
        products == [k \in 1..Cfg.input_features |->
                        At(call.x, <<b>> \o component \o <<k - 1>>)
                        * At(encoder.weight, component \o <<l, k - 1>>)]
        z == SumSeq(products) + At(encoder.bias, component \o <<l>>)
    IN IF z < 0 THEN 0 ELSE z

ComponentIndices == IF Cfg.n_components = None THEN {0} ELSE 0..(Cfg.n_components - 1)

\* C2: for an input of the configured shape, forward returns a tensor of
\* shape (batch, component?, learnt_features) whose entry [b, (c), l] is
\* max(0, sum over i of x[b,(c),i] * weight[(c),l,i] + bias[(c),l]); two
\* batch items with the same input for a component get the same output for it,
\* whatever the rest of the batch holds.
C2_ForwardEntries ==
    InputMatches =>
        /\ ~call.result.raised
        /\ call.result.value.shape =
              IF Cfg.n_components = None
              THEN <<Size(call.x, 0), Cfg.learnt_features>>
              ELSE <<Size(call.x, 0), Cfg.n_components, Cfg.learnt_features>>
        /\ \A b \in 0..(Size(call.x, 0) - 1), c \in ComponentIndices,
              l \in 0..(Cfg.learnt_features - 1) :
              At(call.result.value,
                 <<b>> \o (IF Cfg.n_components = None THEN <<>> ELSE <<c>>) \o <<l>>)
                = ExpectedActivation(b, c, l)
        /\ \A b1, b2 \in 0..(Size(call.x, 0) - 1), c \in ComponentIndices :
              LET component == IF Cfg.n_components = None THEN <<>> ELSE <<c>>
              IN (\A i \in 0..(Cfg.input_features - 1) :
                     At(call.x, <<b1>> \o component \o <<i>>)
                       = At(call.x, <<b2>> \o component \o <<i>>))
                 => \A l \in 0..(Cfg.learnt_features - 1) :
                       At(call.result.value, <<b1>> \o component \o <<l>>)
                         = At(call.result.value, <<b2>> \o component \o <<l>>)

\* A forward pass over two batch items and two components whose result has
\* entries that differ between the components and between the batch items.
C2_Witness ==
    /\ InputMatches
    /\ Cfg.n_components = 2
    /\ Cfg.input_features = 2
    /\ Size(call.x, 0) = 2
    /\ ~call.result.raised
    /\ \E l \in 0..(Cfg.learnt_features - 1) :
          /\ At(call.result.value, <<0, 0, l>>) # At(call.result.value, <<0, 1, l>>)
          /\ At(call.result.value, <<0, 0, l>>) # At(call.result.value, <<1, 0, l>>)

\* C3: every element of what forward returns is >= 0, whatever the input and
\* whatever the parameters' values.
C3_NonNegative ==
    (call.op = "forward" /\ ~call.result.raised) =>
        \A k \in 1..Len(call.result.value.data) : call.result.value.data[k] >= 0

\* A forward pass of an all-negative input, after an external write, in which
\* some pre-activation was clamped to 0 and some was not.
C3_Witness ==
    /\ call.op = "forward"
    /\ ~call.result.raised
    /\ steps > 0
    /\ \A k \in 1..Len(call.x.data) : call.x.data[k] < 0
    /\ \E k \in 1..Len(encoder.weight.data) : encoder.weight.data[k] > 0
    /\ \E k \in 1..Len(encoder.weight.data) : encoder.weight.data[k] < 0
    /\ \E k \in 1..Len(call.result.value.data) : call.result.value.data[k] = 0
    /\ \E k \in 1..Len(call.result.value.data) : call.result.value.data[k] > 0

\* The input's feature dimension differs from input_features, or it has a
\* component axis and the encoder has none, or the other way round.
InputMismatches ==
    /\ call.op = "forward"
    /\ \/ Size(call.x, -1) # Cfg.input_features
       \/ (Rank(call.x) = 3) # (Cfg.n_components # None)

\* C4: a forward pass fails with a shape-mismatch error whenever the input's
\* feature dimension differs from input_features or the presence of the
\* component axis disagrees between the input and n_components.
C4_MismatchRaises == InputMismatches => call.result.raised

\* C7: reset_optimizer_parameter_details is [(weight, -2), (bias, -1)], and
\* the axis named for each parameter is its learnt-feature axis, with or
\* without a component axis.
C7_DetailsNameLearntAxis ==
    pc = "built" =>
        LET d == reset_optimizer_parameter_details
        IN /\ Len(d) = 2
           /\ d[1].parameter = [owner |-> "encoder", name |-> "weight"]
           /\ d[1].axis = -2
           /\ d[2].parameter = [owner |-> "encoder", name |-> "bias"]
           /\ d[2].axis = -1
           /\ Size(encoder.weight, d[1].axis) = Cfg.learnt_features
           /\ Size(encoder.bias, d[2].axis) = Cfg.learnt_features

\* An encoder with a component axis whose three sizes all differ from one
\* another where they can.
C7_Witness ==
    /\ pc = "built"
    /\ Cfg.n_components # None
    /\ Cfg.learnt_features = 2
    /\ Cfg.input_features = 1
    /\ steps > 0

\* C10: the fan_in reset_parameters uses for the bias bound is the size of
\* the last dimension of the weight.
C10_FanInIsLastDimension ==
    pc = "built" => fan_in = Size(encoder.weight, -1)

\* The positive integer v, written as an int, a bool, a float or a string.
Denotes(arg, v) ==
    \/ arg.kind = "int" /\ arg.int = v
    \/ arg.kind = "bool" /\ arg.bool /\ v = 1
    \/ arg.kind = "float" /\ arg.halves = 2 * v
    \/ arg.kind = "str" /\ arg.chars = <<DigitChars[v + 1]>>

DenotesPositive(arg) == \E v \in 1..9 : Denotes(arg, v)

\* C5 as stated: an argument that is non-positive or not an integer (None
\* for n_components aside) makes the construction raise.
C5_NonIntegerRaises ==
    call.op = "__init__" =>
        ((\E k \in 1..3 :
            /\ ~(k = 3 /\ call.args[k].kind = "NoneType")
            /\ \/ call.args[k].kind # "int"
               \/ call.args[k].int <= 0)
         => call.raised /\ pc = "rejected")

\* C5, amended: the construction raises, and builds nothing, exactly when
\* some argument denotes no positive integer (None for n_components aside);
\* otherwise the encoder is built with the integers the arguments denote, an
\* argument of another type ("2", 2.0, True) being converted.
C5_Validation ==
    call.op = "__init__" =>
        LET a == call.args
            accepted == /\ DenotesPositive(a[1])
                        /\ DenotesPositive(a[2])
                        /\ (a[3].kind = "NoneType" \/ DenotesPositive(a[3]))
        IN /\ call.raised <=> ~accepted
           /\ call.raised => (pc = "rejected" /\ encoder = NoEncoder)
           /\ ~call.raised =>
                 /\ pc = "built"
                 /\ Denotes(a[1], Cfg.input_features)
                 /\ Denotes(a[2], Cfg.learnt_features)
                 /\ IF a[3].kind = "NoneType" THEN Cfg.n_components = None
                    ELSE Denotes(a[3], Cfg.n_components)

\* An encoder built from a string and a float, and no component axis.
C5_Witness ==
    /\ call.op = "__init__"
    /\ pc = "built"
    /\ call.args[1].kind = "str"
    /\ call.args[2].kind = "float"
    /\ call.args[3].kind = "NoneType"
    /\ Cfg.input_features = 2
    /\ Cfg.learnt_features = 2
    /\ Rank(encoder.weight) = 2

\* C6: the autoencoder's reset_optimizer_parameter_details is the encoder's
\* list followed by the decoder's: its length is the sum of theirs (4 for two
\* and two) and no entry is for pre_encoder_bias or post_decoder_bias.
C6_EncoderThenDecoder ==
    details # <<>> =>
        LET enc == reset_optimizer_parameter_details
            dec == decoder_details
        IN /\ Len(details) = Len(enc) + Len(dec)
           /\ \A k \in 1..Len(enc) : details[k] = enc[k]
           /\ \A k \in 1..Len(dec) : details[Len(enc) + k] = dec[k]
           /\ \A k \in 1..Len(details) :
                 details[k].parameter.owner \notin {"pre_encoder_bias", "post_decoder_bias"}
           /\ (Len(enc) = 2 /\ Len(dec) = 2) => Len(details) = 4

\* The details read from an autoencoder whose decoder lists two entries.
C6_Witness ==
    /\ Len(details) = 4
    /\ Len(decoder_details) = 2
    /\ decoder_details[1] # decoder_details[2]

\* The numbers are equal.
NumberEq(a, b) == a.kind = "number" /\ b.kind = "number" /\ a.num * b.den = b.num * a.den

\* C8: in the default SweepParameterConfig, l1_coefficient's value list is
\* [0.001, 0.004, 0.006, 0.008, 1], in that order.
C8_L1CoefficientValues ==
    modified = {} =>
        LET v == sweep.parameters.l1_coefficient.value
        IN /\ v.kind = "list"
           /\ Len(v.items) = 5
           /\ NumberEq(v.items[1], Number(1, 1000))
           /\ NumberEq(v.items[2], Number(1, 250))
           /\ NumberEq(v.items[3], Number(3, 500))
           /\ NumberEq(v.items[4], Number(1, 125))
           /\ NumberEq(v.items[5], Number(1, 1))

\* The default parameters, in a sweep whose method was set.
C8_Witness ==
    /\ modified = {}
    /\ sweep.method = "grid"
    /\ sweep.parameters.l1_coefficient.value.kind = "list"

\* C9: every hyperparameter of the default SweepParameterConfig has a fixed
\* value or a range, never a fixed value together with a range.
C9_ValueOrRange ==
    modified = {} =>
        \A h \in Hyperparameters :
            LET p == sweep.parameters[h]
            IN ~(p.value # Absent /\ (p.min # Absent \/ p.max # Absent))

====
